---- MODULE Spec2Model ----
(***************************************************************************)
(* Eligibility attestation of jordaniza/vl-r0.                             *)
(*                                                                         *)
(* Two programs read the same pinned snapshot of chain state:              *)
(*   - the publisher (apps/src/bin/publisher.rs, "host"), whose preflight  *)
(*     issues contract calls to gather the evidence of the proof input;    *)
(*   - the guest (methods/guest/src/bin/delegated_rewards.rs), which is    *)
(*     run by the prover on that input, re-issues its calls against the    *)
(*     gathered evidence, checks eligibility and commits the journal.      *)
(*                                                                         *)
(* Every external contract call is one step.  A call of the guest for      *)
(* which the host gathered no evidence is resolved by the Steel library,   *)
(* outside this repository: it either panics or happens to be answerable   *)
(* from the Merkle nodes that were gathered, so both outcomes are kept.    *)
(***************************************************************************)
EXTENDS Integers, Sequences, FiniteSets, TLC

\* ---------------------------------------------------------------- bounds
MaxBlock == 2
MaxBal == 1
MaxSupply == 2

\* ------------------------------------------------------------- constants
\* Address::ZERO / address!("0000000000000000000000000000000000000000")
ZERO == 0

Address == {ZERO, 1, 2}
Claimants == {1}
ProposalIds == {1}
ProposalContracts == {3}
VotingTokens == {ZERO, 2}
\* the image ID the deployed contract reports: the one the publisher
\* expects (BALANCE_OF_ID) or another one
ImageIds == {"BALANCE_OF_ID", "OTHER_ID"}

VARIABLES
    \* snapshot of the chain state at the execution block
    block_number, proposalExists, proposalEndBlock, votingToken,
    votedAt, delegates, balanceOf, totalSupply, imageID,
    \* the request (command line of the publisher, inputs of the guest)
    proposal_id, claimant, proposal_contract,
    \* publisher
    hpc, herr, hcalls, h_voting_token_address, h_voted_block,
    h_voted_directly, h_delegate_address, evm_input,
    receipt_journal, h_journal, seal, txs,
    \* guest
    gpc, gerr, gcalls, proposal_exists, proposal_end_block,
    voting_token_address, voted_block, voted_directly, voted,
    delegate_address, claimant_balance, total_supply, journal,
    journal_bytes

chainVars == <<block_number, proposalExists, proposalEndBlock, votingToken,
               votedAt, delegates, balanceOf, totalSupply, imageID>>
reqVars == <<proposal_id, claimant, proposal_contract>>
hostLocals == <<h_voting_token_address, h_voted_block, h_voted_directly,
                h_delegate_address>>
pubVars == <<receipt_journal, h_journal, seal, txs>>
hostVars == <<hpc, herr, hcalls, hostLocals, evm_input, pubVars>>
guestLocals == <<proposal_exists, proposal_end_block, voting_token_address,
                 voted_block, voted_directly, voted, delegate_address,
                 claimant_balance, total_supply>>
guestVars == <<gpc, gerr, gcalls, guestLocals, journal, journal_bytes>>
vars == <<chainVars, reqVars, hostVars, guestVars>>

\* ------------------------------------------------------ contract calls
\* A call is the target contract, the function and its arguments.
proposalExistsCall(to, id) == [to |-> to, fn |-> "proposalExists", args |-> <<id>>]
proposalEndBlockCall(to, id) == [to |-> to, fn |-> "proposalEndBlock", args |-> <<id>>]
votingTokenCall(to) == [to |-> to, fn |-> "votingToken", args |-> <<>>]
votedAtCall(to, id, voter) == [to |-> to, fn |-> "votedAt", args |-> <<id, voter>>]
delegatesCall(to, account) == [to |-> to, fn |-> "delegates", args |-> <<account>>]
balanceOfCall(to, account) == [to |-> to, fn |-> "balanceOf", args |-> <<account>>]
totalSupplyCall(to) == [to |-> to, fn |-> "totalSupply", args |-> <<>>]

\* env.into_commitment(): the binding of the reads to the snapshot block
Commitment(bn) == [blockNumber |-> bn]

\* ------------------------------------------------------------------ Init
\* the pinned chain state and the request, any combination
Snapshot ==
    /\ block_number \in 1..MaxBlock
    /\ proposalExists \in BOOLEAN
    /\ proposalEndBlock \in 0..MaxBlock
    /\ votingToken \in VotingTokens
    /\ proposal_id \in ProposalIds
    /\ claimant \in Claimants
    /\ proposal_contract \in ProposalContracts
    /\ votedAt \in {f \in [Address -> 0..MaxBlock] : f[ZERO] = 0}
    /\ delegates \in {f \in [Address -> Address] :
                        \A a \in Address : a # claimant => f[a] = ZERO}
    /\ balanceOf \in {f \in [Address -> 0..MaxBal] : f[ZERO] = 0}
    /\ totalSupply \in (balanceOf[1] + balanceOf[2])..MaxSupply
    /\ imageID \in ImageIds

\* nothing decoded yet / no seal yet
NoJournal == [none |-> TRUE]
NoSeal == "none"

GuestLocalsInit ==
    /\ gerr = "none"
    /\ gcalls = <<>>
    /\ proposal_exists = FALSE
    /\ proposal_end_block = 0
    /\ voting_token_address = ZERO
    /\ voted_block = 0
    /\ voted_directly = FALSE
    /\ voted = FALSE
    /\ delegate_address = ZERO
    /\ claimant_balance = 0
    /\ total_supply = 0
    /\ journal = <<>>
    /\ journal_bytes = <<>>

HostLocalsInit ==
    /\ herr = "none"
    /\ hcalls = <<>>
    /\ h_voting_token_address = ZERO
    /\ h_voted_block = 0
    /\ h_voted_directly = FALSE
    /\ h_delegate_address = ZERO
    /\ receipt_journal = <<>>
    /\ h_journal = NoJournal
    /\ seal = NoSeal
    /\ txs = <<>>

\* the publisher starts; the guest runs only when the prover starts it
Init ==
    /\ Snapshot
    /\ HostLocalsInit
    /\ hpc = "pex"
    /\ evm_input = {}
    /\ GuestLocalsInit
    /\ gpc = "idle"

\* an input that holds the evidence of every call the guest can issue
FullEvidence ==
    UNION {{proposalExistsCall(proposal_contract, proposal_id),
            proposalEndBlockCall(proposal_contract, proposal_id),
            votingTokenCall(proposal_contract),
            totalSupplyCall(votingToken)},
           {votedAtCall(proposal_contract, proposal_id, a) : a \in Address},
           {delegatesCall(votingToken, a) : a \in Address},
           {balanceOfCall(votingToken, a) : a \in Address}}

\* the guest alone, run by a prover on a complete input (env::read())
ReplayInit ==
    /\ Snapshot
    /\ HostLocalsInit
    /\ hpc = "proving"
    /\ evm_input = FullEvidence
    /\ GuestLocalsInit
    /\ gpc = "pex"

\* ------------------------------------------------------------- publisher
\* `.call().await?`: the read is issued; a provider failure ends the run.
HostFail(kind) ==
    /\ hpc' = "failed"
    /\ herr' = kind

HostProposalExists ==
    /\ hpc = "pex"
    /\ hcalls' = Append(hcalls, proposalExistsCall(proposal_contract, proposal_id))
    /\ \E ok \in BOOLEAN :
         IF ok THEN hpc' = "pe" /\ herr' = herr
               ELSE HostFail("ProviderReadFailure")
    /\ UNCHANGED <<chainVars, reqVars, hostLocals, evm_input, guestVars, pubVars>>

HostProposalEndBlock ==
    /\ hpc = "pe"
    /\ hcalls' = Append(hcalls, proposalEndBlockCall(proposal_contract, proposal_id))
    /\ \E ok \in BOOLEAN :
         IF ok THEN hpc' = "vt" /\ herr' = herr
               ELSE HostFail("ProviderReadFailure")
    /\ UNCHANGED <<chainVars, reqVars, hostLocals, evm_input, guestVars, pubVars>>

HostVotingToken ==
    /\ hpc = "vt"
    /\ hcalls' = Append(hcalls, votingTokenCall(proposal_contract))
    /\ \E ok \in BOOLEAN :
         IF ok
         THEN /\ h_voting_token_address' = votingToken
              /\ IF votingToken # ZERO
                 THEN hpc' = "va" /\ herr' = herr
                 ELSE HostFail("InvalidVotingToken")
         ELSE /\ HostFail("ProviderReadFailure")
              /\ UNCHANGED h_voting_token_address
    /\ UNCHANGED <<chainVars, reqVars, h_voted_block, h_voted_directly,
                   h_delegate_address, evm_input, guestVars, pubVars>>

\* publisher.rs:190
HostVotedDirectly(vb) == vb > 0

HostVotedAt ==
    /\ hpc = "va"
    /\ hcalls' = Append(hcalls, votedAtCall(proposal_contract, proposal_id, claimant))
    /\ \E ok \in BOOLEAN :
         IF ok
         THEN /\ h_voted_block' = votedAt[claimant]
              /\ h_voted_directly' = HostVotedDirectly(votedAt[claimant])
              /\ h_delegate_address' = ZERO
              /\ hpc' = IF ~HostVotedDirectly(votedAt[claimant]) THEN "d" ELSE "bo"
              /\ herr' = herr
         ELSE /\ HostFail("ProviderReadFailure")
              /\ UNCHANGED <<h_voted_block, h_voted_directly, h_delegate_address>>
    /\ UNCHANGED <<chainVars, reqVars, h_voting_token_address, evm_input, guestVars, pubVars>>

HostDelegates ==
    /\ hpc = "d"
    /\ hcalls' = Append(hcalls, delegatesCall(h_voting_token_address, claimant))
    /\ \E ok \in BOOLEAN :
         IF ok
         THEN /\ h_delegate_address' = delegates[claimant]
              /\ hpc' = IF delegates[claimant] # ZERO THEN "vad" ELSE "bo"
              /\ herr' = herr
         ELSE /\ HostFail("ProviderReadFailure")
              /\ UNCHANGED h_delegate_address
    /\ UNCHANGED <<chainVars, reqVars, h_voting_token_address, h_voted_block,
                   h_voted_directly, evm_input, guestVars, pubVars>>

HostVotedAtDelegate ==
    /\ hpc = "vad"
    /\ hcalls' = Append(hcalls, votedAtCall(proposal_contract, proposal_id, h_delegate_address))
    /\ \E ok \in BOOLEAN :
         IF ok THEN hpc' = "bo" /\ herr' = herr
               ELSE HostFail("ProviderReadFailure")
    /\ UNCHANGED <<chainVars, reqVars, hostLocals, evm_input, guestVars, pubVars>>

HostBalanceOf_ContinueOnError ==
    /\ hpc = "bo"
    /\ hcalls' = Append(hcalls, balanceOfCall(h_voting_token_address, claimant))
    /\ \E ok \in BOOLEAN :
         /\ hpc' = "ts"
         /\ herr' = IF ok THEN herr ELSE "ProviderReadFailure"
    /\ UNCHANGED <<chainVars, reqVars, hostLocals, evm_input, guestVars, pubVars>>

HostBalanceOf ==
    /\ hpc = "bo"
    /\ hcalls' = Append(hcalls, balanceOfCall(h_voting_token_address, claimant))
    /\ \E ok \in BOOLEAN :
         IF ok THEN hpc' = "ts" /\ herr' = herr
               ELSE HostFail("ProviderReadFailure")
    /\ UNCHANGED <<chainVars, reqVars, hostLocals, evm_input, guestVars, pubVars>>

\* publisher.rs:227 builds an IERC20::balanceOfCall for the total supply
HostTotalSupplyCall(to, account) == balanceOfCall(to, account)

HostTotalSupply ==
    /\ hpc = "ts"
    /\ hcalls' = Append(hcalls, HostTotalSupplyCall(h_voting_token_address, claimant))
    /\ \E ok \in BOOLEAN :
         IF ok THEN hpc' = "input" /\ herr' = herr
               ELSE HostFail("ProviderReadFailure")
    /\ UNCHANGED <<chainVars, reqVars, hostLocals, evm_input, guestVars, pubVars>>

\* env.into_input().await?: the evidence of exactly the preflighted calls
HostIntoInput ==
    /\ hpc = "input"
    /\ \E ok \in BOOLEAN :
         IF ok
         THEN /\ evm_input' = {hcalls[i] : i \in 1..Len(hcalls)}
              /\ hpc' = "prove"
              /\ herr' = herr
         ELSE /\ HostFail("ProviderReadFailure")
              /\ UNCHANGED evm_input
    /\ UNCHANGED <<chainVars, reqVars, hcalls, hostLocals, guestVars, pubVars>>

\* default_prover().prove_with_ctx(..): the guest starts on the input
HostProve ==
    /\ hpc = "prove"
    /\ hpc' = "proving"
    /\ gpc' = "pex"
    /\ UNCHANGED <<chainVars, reqVars, herr, hcalls, hostLocals, evm_input,
                   pubVars, gerr, gcalls, guestLocals, journal, journal_bytes>>

\* receipt.journal.bytes (publisher.rs:259-260): the bytes the guest
\* committed; the publisher never verifies the receipt, so a prover that
\* hands back cut or damaged bytes is only caught by the decoder.
ReceiptJournalBytes(committed) ==
    IF committed = <<>>
    THEN {committed}
    ELSE {committed,
          SubSeq(committed, 1, Len(committed) - 1),
          Append(committed, 0),
          [committed EXCEPT ![4] = 2]}

\* .await?.context("failed to create proof")?
HostProveDone ==
    /\ hpc = "proving"
    /\ gpc \in {"done", "failed"}
    /\ \E ok \in BOOLEAN :
         IF ok /\ gpc = "done"
         THEN /\ hpc' = "proved"
              /\ herr' = herr
              /\ receipt_journal' \in ReceiptJournalBytes(journal_bytes)
         ELSE /\ HostFail("ProvingFailure")
              /\ UNCHANGED receipt_journal
    /\ UNCHANGED <<chainVars, reqVars, hcalls, hostLocals, evm_input, guestVars,
                   h_journal, seal, txs>>

\* number of 32-byte words of an encoded Journal (all fields are static)
JournalWords == 10

\* a word holds a bool iff it is 0 or 1
IsBoolWord(w) == w \in {0, 1}

HostAbiDecode_DelegateClaimantSwapped(bytes) ==
    IF Len(bytes) # JournalWords \/ ~IsBoolWord(bytes[4])
    THEN NoJournal
    ELSE [commitment |-> [blockNumber |-> bytes[1]],
          proposalId |-> bytes[2],
          proposalEnd |-> bytes[3],
          voted |-> (bytes[4] = 1),
          delegate |-> bytes[6],
          claimant |-> bytes[5],
          votingPower |-> bytes[7],
          totalSupply |-> bytes[8],
          votingToken |-> bytes[9],
          governance |-> bytes[10]]

\* Journal::abi_decode(journal, true) on the publisher's struct
\* (publisher.rs:64-75): the fields by position; too few or too many words
\* or a bool word other than 0/1 is an error (NoJournal).
HostAbiDecode(bytes) ==
    IF Len(bytes) # JournalWords \/ ~IsBoolWord(bytes[4])
    THEN NoJournal
    ELSE [commitment |-> [blockNumber |-> bytes[1]],
          proposalId |-> bytes[2],
          proposalEnd |-> bytes[3],
          voted |-> (bytes[4] = 1),
          delegate |-> bytes[5],
          claimant |-> bytes[6],
          votingPower |-> bytes[7],
          totalSupply |-> bytes[8],
          votingToken |-> bytes[9],
          governance |-> bytes[10]]

\* let journal = Journal::abi_decode(journal, true).context("invalid journal")?
HostDecodeJournal ==
    /\ hpc = "proved"
    /\ IF HostAbiDecode(receipt_journal) # NoJournal
       THEN /\ h_journal' = HostAbiDecode(receipt_journal)
            /\ hpc' = "seal"
            /\ herr' = herr
       ELSE /\ HostFail("JournalDecodeFailure")
            /\ UNCHANGED h_journal
    /\ UNCHANGED <<chainVars, reqVars, hcalls, hostLocals, evm_input, guestVars,
                   receipt_journal, seal, txs>>

\* let seal = encode_seal(&receipt).context("invalid receipt")?
HostEncodeSeal ==
    /\ hpc = "seal"
    /\ \E ok \in BOOLEAN :
         IF ok
         THEN /\ seal' = "seal"
              /\ hpc' = "image"
              /\ herr' = herr
         ELSE /\ HostFail("InvalidReceipt")
              /\ UNCHANGED seal
    /\ UNCHANGED <<chainVars, reqVars, hcalls, hostLocals, evm_input, guestVars,
                   receipt_journal, h_journal, txs>>

HostImageId_NoEnsure ==
    /\ hpc = "image"
    /\ hpc' = "send"
    /\ UNCHANGED <<chainVars, reqVars, herr, hcalls, hostLocals, evm_input,
                   guestVars, pubVars>>

\* contract.imageID().call().await? and
\* ensure!(contract_image_id == BALANCE_OF_ID.into())
HostImageId ==
    /\ hpc = "image"
    /\ \E ok \in BOOLEAN :
         IF ok
         THEN IF imageID = "BALANCE_OF_ID"
              THEN hpc' = "send" /\ herr' = herr
              ELSE HostFail("ImageIdMismatch")
         ELSE HostFail("ImageIdCallFailure")
    /\ UNCHANGED <<chainVars, reqVars, hcalls, hostLocals, evm_input, guestVars,
                   pubVars>>

\* contract.increment(receipt.journal.bytes, seal).send().await?
HostSend ==
    /\ hpc = "send"
    /\ \E ok \in BOOLEAN :
         IF ok
         THEN /\ txs' = Append(txs, [journal |-> receipt_journal, seal |-> seal])
              /\ hpc' = "confirm"
              /\ herr' = herr
         ELSE /\ HostFail("SendFailure")
              /\ UNCHANGED txs
    /\ UNCHANGED <<chainVars, reqVars, hcalls, hostLocals, evm_input, guestVars,
                   receipt_journal, h_journal, seal>>

\* pending_tx.get_receipt().await and ensure!(receipt.status(), ..); Ok(())
HostConfirm ==
    /\ hpc = "confirm"
    /\ \E ok \in BOOLEAN :
         IF ok THEN hpc' = "ok" /\ herr' = herr
               ELSE HostFail("TransactionFailed")
    /\ UNCHANGED <<chainVars, reqVars, hcalls, hostLocals, evm_input, guestVars,
                   pubVars>>

HostNext ==
    \/ HostProposalExists
    \/ HostProposalEndBlock
    \/ HostVotingToken
    \/ HostVotedAt
    \/ HostDelegates
    \/ HostVotedAtDelegate
    \/ HostBalanceOf
    \/ HostTotalSupply
    \/ HostIntoInput
    \/ HostProve
    \/ HostProveDone
    \/ HostDecodeJournal
    \/ HostEncodeSeal
    \/ HostImageId
    \/ HostSend
    \/ HostConfirm

\* ----------------------------------------------------------------- guest
GuestReadOutcomes_Unreliable(c) == BOOLEAN

\* Contract::new(..).call_builder(..).call(): a call whose evidence is part
\* of the input is answered from the snapshot; a call without evidence
\* panics, unless the gathered Merkle nodes happen to cover it.
GuestReadOutcomes(c) == IF c \in evm_input THEN {TRUE} ELSE BOOLEAN

\* a failed assert! or a failed read: the guest panics, nothing is committed
GuestFail(kind) ==
    /\ gpc' = "failed"
    /\ gerr' = kind

GuestProposalExists ==
    /\ gpc = "pex"
    /\ gcalls' = Append(gcalls, proposalExistsCall(proposal_contract, proposal_id))
    /\ \E ok \in GuestReadOutcomes(proposalExistsCall(proposal_contract, proposal_id)) :
         IF ok
         THEN /\ proposal_exists' = proposalExists
              /\ IF proposalExists
                 THEN gpc' = "pe" /\ gerr' = gerr
                 ELSE GuestFail("ProposalNotFound")
         ELSE /\ GuestFail("MissingEvidence")
              /\ UNCHANGED proposal_exists
    /\ UNCHANGED <<chainVars, reqVars, hostVars, proposal_end_block,
                   voting_token_address, voted_block, voted_directly, voted,
                   delegate_address, claimant_balance, total_supply, journal, journal_bytes>>

GuestProposalEndBlock_NoAssert ==
    /\ gpc = "pe"
    /\ gcalls' = Append(gcalls, proposalEndBlockCall(proposal_contract, proposal_id))
    /\ proposal_end_block' = proposalEndBlock
    /\ gpc' = "vt"
    /\ gerr' = gerr
    /\ UNCHANGED <<chainVars, reqVars, hostVars, proposal_exists,
                   voting_token_address, voted_block, voted_directly, voted,
                   delegate_address, claimant_balance, total_supply, journal, journal_bytes>>

GuestProposalEndBlock ==
    /\ gpc = "pe"
    /\ gcalls' = Append(gcalls, proposalEndBlockCall(proposal_contract, proposal_id))
    /\ \E ok \in GuestReadOutcomes(proposalEndBlockCall(proposal_contract, proposal_id)) :
         IF ok
         THEN /\ proposal_end_block' = proposalEndBlock
              /\ IF proposalEndBlock = block_number
                 THEN gpc' = "vt" /\ gerr' = gerr
                 ELSE GuestFail("BlockMismatch")
         ELSE /\ GuestFail("MissingEvidence")
              /\ UNCHANGED proposal_end_block
    /\ UNCHANGED <<chainVars, reqVars, hostVars, proposal_exists,
                   voting_token_address, voted_block, voted_directly, voted,
                   delegate_address, claimant_balance, total_supply, journal, journal_bytes>>

GuestVotingToken ==
    /\ gpc = "vt"
    /\ gcalls' = Append(gcalls, votingTokenCall(proposal_contract))
    /\ \E ok \in GuestReadOutcomes(votingTokenCall(proposal_contract)) :
         IF ok
         THEN /\ voting_token_address' = votingToken
              /\ IF votingToken # ZERO
                 THEN gpc' = "va" /\ gerr' = gerr
                 ELSE GuestFail("InvalidVotingToken")
         ELSE /\ GuestFail("MissingEvidence")
              /\ UNCHANGED voting_token_address
    /\ UNCHANGED <<chainVars, reqVars, hostVars, proposal_exists,
                   proposal_end_block, voted_block, voted_directly, voted,
                   delegate_address, claimant_balance, total_supply, journal, journal_bytes>>

VotedDirectly_LateStart(vb, bn) == vb > 1 /\ vb < bn

\* delegated_rewards.rs:116
VotedDirectly(vb, bn) == vb > 0 /\ vb < bn

GuestVotedAt ==
    /\ gpc = "va"
    /\ gcalls' = Append(gcalls, votedAtCall(proposal_contract, proposal_id, claimant))
    /\ \E ok \in GuestReadOutcomes(votedAtCall(proposal_contract, proposal_id, claimant)) :
         IF ok
         THEN /\ voted_block' = votedAt[claimant]
              /\ voted_directly' = VotedDirectly(votedAt[claimant], block_number)
              /\ voted' = VotedDirectly(votedAt[claimant], block_number)
              /\ delegate_address' = ZERO
              /\ gpc' = IF ~VotedDirectly(votedAt[claimant], block_number)
                        THEN "d" ELSE "assert"
              /\ gerr' = gerr
         ELSE /\ GuestFail("MissingEvidence")
              /\ UNCHANGED <<voted_block, voted_directly, voted, delegate_address>>
    /\ UNCHANGED <<chainVars, reqVars, hostVars, proposal_exists,
                   proposal_end_block, voting_token_address,
                   claimant_balance, total_supply, journal, journal_bytes>>

GuestDelegates ==
    /\ gpc = "d"
    /\ gcalls' = Append(gcalls, delegatesCall(voting_token_address, claimant))
    /\ \E ok \in GuestReadOutcomes(delegatesCall(voting_token_address, claimant)) :
         IF ok
         THEN /\ delegate_address' = delegates[claimant]
              /\ gpc' = IF delegates[claimant] # ZERO THEN "vad" ELSE "assert"
              /\ gerr' = gerr
         ELSE /\ GuestFail("MissingEvidence")
              /\ UNCHANGED delegate_address
    /\ UNCHANGED <<chainVars, reqVars, hostVars, proposal_exists,
                   proposal_end_block, voting_token_address, voted_block,
                   voted_directly, voted, claimant_balance, total_supply, journal, journal_bytes>>

DelegateVoted_AtEnd(dvb, bn) == dvb > 0 /\ dvb <= bn

\* delegated_rewards.rs:146-147
DelegateVoted(dvb, bn) == dvb > 0 /\ dvb < bn

GuestVotedAtDelegate ==
    /\ gpc = "vad"
    /\ gcalls' = Append(gcalls, votedAtCall(proposal_contract, proposal_id, delegate_address))
    /\ \E ok \in GuestReadOutcomes(votedAtCall(proposal_contract, proposal_id, delegate_address)) :
         IF ok
         THEN /\ voted' = DelegateVoted(votedAt[delegate_address], block_number)
              /\ gpc' = "assert"
              /\ gerr' = gerr
         ELSE /\ GuestFail("MissingEvidence")
              /\ UNCHANGED voted
    /\ UNCHANGED <<chainVars, reqVars, hostVars, proposal_exists,
                   proposal_end_block, voting_token_address, voted_block,
                   voted_directly, delegate_address,
                   claimant_balance, total_supply, journal, journal_bytes>>

GuestAssertVoted_NoAssert ==
    /\ gpc = "assert"
    /\ gpc' = "bo"
    /\ UNCHANGED <<chainVars, reqVars, hostVars, gerr, gcalls, guestLocals, journal, journal_bytes>>

\* assert!(voted)
GuestAssertVoted ==
    /\ gpc = "assert"
    /\ IF voted THEN gpc' = "bo" /\ gerr' = gerr
                ELSE GuestFail("NotEligible")
    /\ UNCHANGED <<chainVars, reqVars, hostVars, gcalls, guestLocals, journal, journal_bytes>>

GuestBalanceOf_OfDelegate ==
    /\ gpc = "bo"
    /\ LET account == IF delegate_address # ZERO THEN delegate_address ELSE claimant
       IN /\ gcalls' = Append(gcalls, balanceOfCall(voting_token_address, account))
          /\ claimant_balance' = balanceOf[account]
    /\ gpc' = "ts"
    /\ gerr' = gerr
    /\ UNCHANGED <<chainVars, reqVars, hostVars, proposal_exists,
                   proposal_end_block, voting_token_address, voted_block,
                   voted_directly, voted, delegate_address, total_supply, journal, journal_bytes>>

GuestBalanceOf ==
    /\ gpc = "bo"
    /\ gcalls' = Append(gcalls, balanceOfCall(voting_token_address, claimant))
    /\ \E ok \in GuestReadOutcomes(balanceOfCall(voting_token_address, claimant)) :
         IF ok
         THEN /\ claimant_balance' = balanceOf[claimant]
              /\ gpc' = "ts"
              /\ gerr' = gerr
         ELSE /\ GuestFail("MissingEvidence")
              /\ UNCHANGED claimant_balance
    /\ UNCHANGED <<chainVars, reqVars, hostVars, proposal_exists,
                   proposal_end_block, voting_token_address, voted_block,
                   voted_directly, voted, delegate_address, total_supply, journal, journal_bytes>>

GuestTotalSupply ==
    /\ gpc = "ts"
    /\ gcalls' = Append(gcalls, totalSupplyCall(voting_token_address))
    /\ \E ok \in GuestReadOutcomes(totalSupplyCall(voting_token_address)) :
         IF ok
         THEN /\ total_supply' = totalSupply
              /\ gpc' = "commit"
              /\ gerr' = gerr
         ELSE /\ GuestFail("MissingEvidence")
              /\ UNCHANGED total_supply
    /\ UNCHANGED <<chainVars, reqVars, hostVars, proposal_exists,
                   proposal_end_block, voting_token_address, voted_block,
                   voted_directly, voted, delegate_address, claimant_balance,
                   journal, journal_bytes>>

Journal_DelegateDropped ==
    [commitment |-> Commitment(block_number),
     proposalId |-> proposal_id,
     proposalEnd |-> proposal_end_block,
     voted |-> voted,
     delegate |-> ZERO,
     claimant |-> claimant,
     votingPower |-> claimant_balance,
     totalSupply |-> total_supply,
     votingToken |-> voting_token_address,
     governance |-> proposal_contract]

\* the Journal struct of delegated_rewards.rs:169-180
Journal ==
    [commitment |-> Commitment(block_number),
     proposalId |-> proposal_id,
     proposalEnd |-> proposal_end_block,
     voted |-> voted,
     delegate |-> delegate_address,
     claimant |-> claimant,
     votingPower |-> claimant_balance,
     totalSupply |-> total_supply,
     votingToken |-> voting_token_address,
     governance |-> proposal_contract]

\* journal.abi_encode() on the guest's struct (delegated_rewards.rs:51-62):
\* one word per field, in the order of the declaration
GuestAbiEncode(j) ==
    <<j.commitment.blockNumber, j.proposalId, j.proposalEnd,
      IF j.voted THEN 1 ELSE 0, j.delegate, j.claimant, j.votingPower,
      j.totalSupply, j.votingToken, j.governance>>

\* env::commit_slice(&journal.abi_encode())
GuestCommit ==
    /\ gpc = "commit"
    /\ journal' = Append(journal, Journal)
    /\ journal_bytes' = GuestAbiEncode(Journal)
    /\ gpc' = "done"
    /\ UNCHANGED <<chainVars, reqVars, hostVars, gerr, gcalls, guestLocals>>

GuestNext ==
    \/ GuestProposalExists
    \/ GuestProposalEndBlock
    \/ GuestVotingToken
    \/ GuestVotedAt
    \/ GuestDelegates
    \/ GuestVotedAtDelegate
    \/ GuestAssertVoted
    \/ GuestBalanceOf
    \/ GuestTotalSupply
    \/ GuestCommit

Next == HostNext \/ GuestNext

Spec == Init /\ [][Next]_vars

\* the replay pass on its own, on a complete input
ReplaySpec == ReplayInit /\ [][GuestNext]_vars

\* the journal codec on its own: the guest is about to build and commit a
\* journal from any field values, the publisher then decodes the receipt
CodecInit ==
    /\ block_number \in 1..MaxBlock
    /\ proposalExists = TRUE
    /\ proposalEndBlock = block_number
    /\ votingToken \in VotingTokens
    /\ proposal_id \in ProposalIds
    /\ claimant \in Claimants
    /\ proposal_contract \in ProposalContracts
    /\ votedAt = [a \in Address |-> 0]
    /\ delegates = [a \in Address |-> ZERO]
    /\ balanceOf = [a \in Address |-> 0]
    /\ totalSupply = 0
    /\ imageID \in ImageIds
    /\ HostLocalsInit
    /\ hpc = "proving"
    /\ evm_input = FullEvidence
    /\ gpc = "commit"
    /\ gerr = "none"
    /\ gcalls = <<>>
    /\ proposal_exists = TRUE
    /\ proposal_end_block \in 0..MaxBlock
    /\ voting_token_address \in Address
    /\ voted_block = 0
    /\ voted_directly = FALSE
    /\ voted \in BOOLEAN
    /\ delegate_address \in Address
    /\ claimant_balance \in 0..MaxBal
    /\ total_supply \in 0..MaxSupply
    /\ journal = <<>>
    /\ journal_bytes = <<>>

CodecNext ==
    \/ GuestCommit
    \/ HostProveDone
    \/ HostDecodeJournal
    \/ HostEncodeSeal
    \/ HostImageId
    \/ HostSend
    \/ HostConfirm

CodecSpec == CodecInit /\ [][CodecNext]_vars

\* ============================================================ properties
Calls(s) == {s[i] : i \in 1..Len(s)}
CountFn(s, f) == Cardinality({i \in 1..Len(s) : s[i].fn = f})
GuestEnded == gpc \in {"done", "failed"}
HostAfterPreflight ==
    {"input", "prove", "proving", "proved", "seal", "image", "send",
     "confirm", "ok"}
HostPreflightCompleted ==
    \/ hpc \in HostAfterPreflight
    \/ hpc = "failed" /\ herr \notin {"ProviderReadFailure", "InvalidVotingToken"}
InWindow(vb) == 0 < vb /\ vb < proposalEndBlock
SelfVoted == InWindow(votedAt[claimant])
DelegateVotedOnChain ==
    delegates[claimant] # ZERO /\ InWindow(votedAt[delegates[claimant]])

\* C1: once both passes have run, the recording pass (publisher preflight)
\* and the replay pass (guest) have issued the same external calls, call
\* for call and in the same order, whatever the snapshot state.
C1_SameCallSequence == GuestEnded => gcalls = hcalls

\* C2: on a snapshot that passed the existence, block-equality and
\* voting-token checks, the guest's voted is true iff the claimant voted
\* with 0 < block < proposalEnd, or the claimant's registered delegate is
\* non-zero and voted with 0 < block < proposalEnd (both bounds strict).
C2_VotedIff ==
    (gpc \in {"assert", "bo", "ts", "commit", "done"}
        \/ (gpc = "failed" /\ gerr = "NotEligible"))
    => (voted <=> (SelfVoted \/ DelegateVotedOnChain))

C2_Witness ==
    /\ gpc = "assert"
    /\ voted
    /\ ~SelfVoted
    /\ votedAt[claimant] >= proposalEndBlock
    /\ delegates[claimant] # ZERO

\* C3: a journal is committed only after the four checks (proposal exists,
\* end block equals snapshot block, voting token non-zero, voted) passed;
\* a failed execution commits nothing, a successful one commits exactly one
\* journal, and the commit is the last step of the guest.
C3_JournalOnlyAfterChecks ==
    /\ journal # <<>> =>
         /\ Len(journal) = 1
         /\ gpc = "done"
         /\ gerr = "none"
         /\ proposalExists
         /\ proposalEndBlock = block_number
         /\ votingToken # ZERO
         /\ voted
         /\ journal[1].voted
    /\ gpc = "failed" => journal = <<>>
    /\ gpc \notin {"done", "failed"} => journal = <<>>
    /\ gpc = "done" => (Len(journal) = 1 /\ ~ENABLED GuestNext)

C3_Witness == gpc = "done" /\ Len(journal) = 1 /\ gerr = "none"

\* C4: every committed journal carries the snapshot's block number in
\* proposalEnd, and voted = true.
C4_JournalPinnedToBlock ==
    \A i \in 1..Len(journal) :
        /\ journal[i].proposalEnd = block_number
        /\ journal[i].commitment = Commitment(journal[i].proposalEnd)
        /\ journal[i].voted = TRUE

C4_Witness ==
    /\ Len(journal) = 1
    /\ journal[1].proposalEnd = block_number
    /\ block_number = 2

\* C5 as stated: whenever the proposal end block differs from the snapshot
\* block, the replay ends in BlockMismatch, whatever the proposal-existence,
\* voting-token, vote and delegation state.
C5_Original ==
    (proposalEndBlock # block_number /\ GuestEnded) => gerr = "BlockMismatch"

\* C5 (amended): whenever the proposal exists and its end block differs
\* from the snapshot block, the replay fails with BlockMismatch right after
\* the proposalEndBlock read, whatever the voting-token, vote and delegation
\* state; a missing proposal fails earlier, with ProposalNotFound.
C5_BlockMismatch ==
    /\ (proposalExists /\ proposalEndBlock # block_number) =>
         /\ gpc \in {"pex", "pe", "failed"}
         /\ gpc = "failed" =>
              /\ gerr = "BlockMismatch"
              /\ Len(gcalls) = 2
              /\ gcalls[2].fn = "proposalEndBlock"
    /\ (~proposalExists /\ GuestEnded) => gerr = "ProposalNotFound"

C5_Witness ==
    /\ gpc = "failed"
    /\ gerr = "BlockMismatch"
    /\ votingToken = ZERO
    /\ SelfVoted

\* C6: the recording pass completes without error iff the replay pass
\* completes without error.
C6_SameOutcome ==
    GuestEnded => (HostPreflightCompleted <=> (gpc = "done" /\ gerr = "none"))

\* C7: whenever the claimant's vote block is 0 or at/after the proposal end
\* block, each pass that got past the claimant's votedAt read has issued the
\* delegates(claimant) read on the voting token and, for a non-zero
\* delegate, the votedAt(proposalId, delegate) read.
C7_DelegationReadIssued ==
    LET need == ~SelfVoted
        d == delegates[claimant]
        Issued(s) ==
            /\ delegatesCall(votingToken, claimant) \in Calls(s)
            /\ d # ZERO => votedAtCall(proposal_contract, proposal_id, d) \in Calls(s)
    IN /\ (need /\ hpc \in {"bo", "ts"} \cup HostAfterPreflight)
            => Issued(hcalls)
       /\ (need /\ gpc \in {"assert", "bo", "ts", "commit", "done"})
            => Issued(gcalls)

\* C8: for a claimant who voted directly (0 < voteBlock < proposalEnd),
\* neither pass issues a delegates read or a second votedAt read, and a
\* committed journal has the zero address as delegate.
C8_DirectVoteShortCircuits ==
    SelfVoted =>
        /\ CountFn(hcalls, "delegates") = 0
        /\ CountFn(gcalls, "delegates") = 0
        /\ CountFn(hcalls, "votedAt") <= 1
        /\ CountFn(gcalls, "votedAt") <= 1
        /\ \A i \in 1..Len(journal) : journal[i].delegate = ZERO

C8_Witness ==
    /\ SelfVoted
    /\ Len(journal) = 1
    /\ delegates[claimant] \notin {ZERO, claimant}
    /\ InWindow(votedAt[delegates[claimant]])

\* C9 as stated: in every committed journal the delegate field is zero iff
\* the claimant has no active delegation in the registry.
C9_Original ==
    \A i \in 1..Len(journal) :
        journal[i].delegate = ZERO <=> delegates[claimant] = ZERO

\* C9 (amended): in every committed journal the delegate field is zero iff
\* the claimant voted directly or has no active delegation; a non-zero
\* delegate field is the claimant's registered delegate.
C9_DelegateField ==
    \A i \in 1..Len(journal) :
        /\ journal[i].delegate = ZERO <=> (SelfVoted \/ delegates[claimant] = ZERO)
        /\ journal[i].delegate # ZERO => journal[i].delegate = delegates[claimant]

C9_Witness ==
    /\ Len(journal) = 1
    /\ journal[1].delegate # ZERO
    /\ ~SelfVoted

\* C10: in every committed journal votingPower is the claimant's own
\* balance and totalSupply the token's total supply, for direct and for
\* delegated eligibility; no balanceOf read is made for another account;
\* claimant, votingToken and governance are the request's claimant, the
\* resolved token and the request's proposal contract.
C10_ClaimantOwnBalance ==
    /\ \A i \in 1..Len(journal) :
         /\ journal[i].votingPower = balanceOf[claimant]
         /\ journal[i].totalSupply = totalSupply
         /\ journal[i].claimant = claimant
         /\ journal[i].votingToken = votingToken
         /\ journal[i].governance = proposal_contract
    /\ \A c \in Calls(gcalls) \cup Calls(hcalls) :
         c.fn = "balanceOf" => c.args = <<claimant>>

C10_Witness ==
    /\ Len(journal) = 1
    /\ journal[1].delegate \notin {ZERO, claimant}
    /\ balanceOf[journal[1].delegate] # balanceOf[claimant]
    /\ totalSupply # balanceOf[claimant]
    /\ CountFn(gcalls, "balanceOf") = 1

\* C11: once eligibility is confirmed, each pass ends its reads with
\* balanceOf(claimant) followed by a distinct totalSupply() on the voting
\* token, so the replay's total-supply read has recorded evidence.
Eligible ==
    /\ proposalExists
    /\ proposalEndBlock = block_number
    /\ votingToken # ZERO
    /\ (SelfVoted \/ DelegateVotedOnChain)
EndsWithBalanceThenSupply(s) ==
    /\ Len(s) >= 2
    /\ s[Len(s) - 1] = balanceOfCall(votingToken, claimant)
    /\ s[Len(s)] = totalSupplyCall(votingToken)

C11_BalanceThenSupply ==
    Eligible =>
        /\ HostPreflightCompleted => EndsWithBalanceThenSupply(hcalls)
        /\ gpc \in {"commit", "done"} =>
             /\ EndsWithBalanceThenSupply(gcalls)
             /\ totalSupplyCall(votingToken) \in evm_input

\* C12: when the proposal end block differs from the snapshot block, a pass
\* issues no read after proposalEndBlock: no votingToken, votedAt,
\* delegates, balanceOf or totalSupply call is in its trace.
LaterReads == {"votingToken", "votedAt", "delegates", "balanceOf", "totalSupply"}

C12_NoReadAfterMismatch ==
    proposalEndBlock # block_number =>
        \A c \in Calls(hcalls) \cup Calls(gcalls) : c.fn \notin LaterReads

\* C13: when the claimant did not vote directly and delegates(claimant)
\* returned the zero address, the pass stops: no votedAt read for a delegate
\* and no balanceOf or totalSupply read follows.
StopsAfterZeroDelegate(s) ==
    (delegatesCall(votingToken, claimant) \in Calls(s) /\ delegates[claimant] = ZERO)
    => /\ s[Len(s)].fn = "delegates"
       /\ CountFn(s, "votedAt") = 1
       /\ CountFn(s, "balanceOf") = 0
       /\ CountFn(s, "totalSupply") = 0

C13_StopsAfterZeroDelegate ==
    StopsAfterZeroDelegate(hcalls) /\ StopsAfterZeroDelegate(gcalls)

\* C14: if a preflight read of the publisher fails, the run ends at that
\* read: the failed read is the last one issued, nothing is enabled after
\* it, the prover (guest) was never started and no transaction was sent.
C14_ReadFailureAborts ==
    herr = "ProviderReadFailure" =>
        /\ hpc = "failed"
        /\ ~ENABLED Next
        /\ Len(hcalls) >= 1
        /\ gpc = "idle"
        /\ gcalls = <<>>
        /\ journal = <<>>
        /\ receipt_journal = <<>>
        /\ txs = <<>>

C14_Witness ==
    /\ herr = "ProviderReadFailure"
    /\ Len(hcalls) = 5
    /\ hcalls[5].fn = "balanceOf"
    /\ Eligible

\* C15: whenever the call sets of the two passes differ, no journal is
\* committed and no transaction is submitted.
C15_FailsClosed ==
    (journal # <<>> \/ txs # <<>>) =>
        /\ Calls(gcalls) = Calls(hcalls)
        /\ Calls(gcalls) \subseteq evm_input

\* C16: the checks come in the order existence, block equality, voting
\* token, eligibility: without the proposal the outcome is ProposalNotFound
\* and only proposalExists was read; with the proposal, a matching block and
\* a zero voting token the outcome is InvalidVotingToken and no votedAt,
\* delegates, balanceOf or totalSupply read was issued.
C16_CheckOrder ==
    /\ ~proposalExists =>
         /\ Len(hcalls) <= 1
         /\ Len(gcalls) <= 1
         /\ GuestEnded => gerr = "ProposalNotFound"
    /\ (proposalExists /\ proposalEndBlock = block_number /\ votingToken = ZERO) =>
         /\ \A c \in Calls(hcalls) \cup Calls(gcalls) :
                c.fn \in {"proposalExists", "proposalEndBlock", "votingToken"}
         /\ GuestEnded => gerr = "InvalidVotingToken"

\* C17: the outcome of a replay is a function of the snapshot and the
\* request alone: its reads, its failure kind and its journal are the ones
\* computed here from the chain state, so two replays of the same inputs
\* agree.
ResolverCalls ==
    LET pc == proposal_contract
        id == proposal_id
        d == delegates[claimant]
        direct == 0 < votedAt[claimant] /\ votedAt[claimant] < block_number
        byDelegate == d # ZERO /\ 0 < votedAt[d] /\ votedAt[d] < block_number
    IN  <<proposalExistsCall(pc, id)>>
        \o (IF ~proposalExists THEN <<>> ELSE
            <<proposalEndBlockCall(pc, id)>>
        \o (IF proposalEndBlock # block_number THEN <<>> ELSE
            <<votingTokenCall(pc)>>
        \o (IF votingToken = ZERO THEN <<>> ELSE
            <<votedAtCall(pc, id, claimant)>>
        \o (IF direct THEN <<>> ELSE
              <<delegatesCall(votingToken, claimant)>>
              \o (IF d = ZERO THEN <<>> ELSE <<votedAtCall(pc, id, d)>>))
        \o (IF ~(direct \/ byDelegate) THEN <<>> ELSE
            <<balanceOfCall(votingToken, claimant), totalSupplyCall(votingToken)>>))))
ResolverOutcome ==
    IF ~proposalExists THEN "ProposalNotFound"
    ELSE IF proposalEndBlock # block_number THEN "BlockMismatch"
    ELSE IF votingToken = ZERO THEN "InvalidVotingToken"
    ELSE IF ~(SelfVoted \/ DelegateVotedOnChain) THEN "NotEligible"
    ELSE "none"
ResolverJournal ==
    [commitment |-> [blockNumber |-> block_number],
     proposalId |-> proposal_id,
     proposalEnd |-> proposalEndBlock,
     voted |-> TRUE,
     delegate |-> IF SelfVoted THEN ZERO ELSE delegates[claimant],
     claimant |-> claimant,
     votingPower |-> balanceOf[claimant],
     totalSupply |-> totalSupply,
     votingToken |-> votingToken,
     governance |-> proposal_contract]

C17_ReplayDeterministic ==
    GuestEnded =>
        /\ gerr = ResolverOutcome
        /\ gcalls = ResolverCalls
        /\ journal = IF ResolverOutcome = "none" THEN <<ResolverJournal>> ELSE <<>>
        /\ (gpc = "done") <=> (ResolverOutcome = "none")

C17_Witness ==
    /\ gpc = "done"
    /\ Len(gcalls) = 8
    /\ journal = <<ResolverJournal>>

\* C18: the journal has one field order (commitment, proposalId,
\* proposalEnd, voted, delegate, claimant, votingPower, totalSupply,
\* votingToken, governance) in the guest's encoder and the publisher's
\* decoder: decoding the committed bytes gives back the committed fields,
\* for any field values, and a cut or damaged journal ends the run with a
\* decode failure and no transaction.
ReceiptIntact == receipt_journal = journal_bytes
HostAfterDecode == {"seal", "image", "send", "confirm", "ok"}

C18_JournalRoundTrip ==
    /\ journal_bytes # <<>> =>
         /\ Len(journal_bytes) = 10
         /\ journal_bytes[1] = journal[1].commitment.blockNumber
         /\ journal_bytes[2] = journal[1].proposalId
         /\ journal_bytes[3] = journal[1].proposalEnd
         /\ journal_bytes[4] = (IF journal[1].voted THEN 1 ELSE 0)
         /\ journal_bytes[5] = journal[1].delegate
         /\ journal_bytes[6] = journal[1].claimant
         /\ journal_bytes[7] = journal[1].votingPower
         /\ journal_bytes[8] = journal[1].totalSupply
         /\ journal_bytes[9] = journal[1].votingToken
         /\ journal_bytes[10] = journal[1].governance
    /\ h_journal # NoJournal => (ReceiptIntact /\ h_journal = journal[1])
    /\ (receipt_journal # <<>> /\ ReceiptIntact /\ hpc # "proved") =>
         (h_journal = journal[1] /\ herr # "JournalDecodeFailure")
    /\ (receipt_journal # <<>> /\ ~ReceiptIntact /\ hpc # "proved") =>
         /\ hpc = "failed"
         /\ herr = "JournalDecodeFailure"
         /\ h_journal = NoJournal
         /\ txs = <<>>

C18_Witness ==
    /\ h_journal # NoJournal
    /\ h_journal = journal[1]
    /\ ~h_journal.voted
    /\ h_journal.delegate = 2
    /\ h_journal.claimant = 1
    /\ h_journal.votingToken = ZERO

\* C19: the publisher sends at most one transaction, and only after the
\* preflight completed, the proof was produced, the journal decoded, the
\* seal was encoded and the contract's image ID was found equal to the
\* expected one, in this order; a failure of any of these steps ends the
\* run without a transaction.
C19_SendOnlyAfterAllSteps ==
    /\ Len(txs) <= 1
    /\ txs # <<>> =>
         /\ hpc \in {"confirm", "ok"} \/ (hpc = "failed" /\ herr = "TransactionFailed")
         /\ evm_input = Calls(hcalls)
         /\ evm_input # {}
         /\ gpc = "done"
         /\ receipt_journal # <<>>
         /\ h_journal = HostAbiDecode(receipt_journal)
         /\ h_journal # NoJournal
         /\ seal # NoSeal
         /\ imageID = "BALANCE_OF_ID"
         /\ txs[1] = [journal |-> receipt_journal, seal |-> seal]
    /\ hpc \in {"pex", "pe", "vt", "va", "d", "vad", "bo", "ts", "input"} =>
         (evm_input = {} /\ gpc = "idle")
    /\ hpc \in {"prove", "proving"} => (evm_input # {} /\ receipt_journal = <<>>)
    /\ hpc = "proved" => (gpc = "done" /\ h_journal = NoJournal)
    /\ hpc = "seal" => (h_journal # NoJournal /\ seal = NoSeal)
    /\ hpc = "image" => (seal # NoSeal /\ txs = <<>>)
    /\ hpc = "send" => (imageID = "BALANCE_OF_ID" /\ seal # NoSeal /\ txs = <<>>)
    /\ (hpc = "failed" /\ herr # "TransactionFailed") => txs = <<>>

C19_Witness ==
    /\ hpc = "ok"
    /\ Len(txs) = 1
    /\ txs[1].journal = journal_bytes
====
